---- MODULE Spec2Model ----
(***************************************************************************)
(* State-machine model of BitcoinRPCFailoverManager                        *)
(* (src/api/bitcoin_rpc_failover.py).                                      *)
(*                                                                         *)
(* Threads: the callers of rpc_call, the background health-check thread,   *)
(* a caller of get_status and the owner that calls start()/stop().  Every  *)
(* access to shared state that the code makes outside `with self._lock` is *)
(* a step of its own, so that the interleavings the interpreter allows are *)
(* the interleavings of the model.  A `with self._lock` block is two       *)
(* steps: the acquisition (with the loads of the values that `+=` reads)   *)
(* and the stores with the release.                                        *)
(***************************************************************************)
EXTENDS Integers, Sequences, FiniteSets, TLC

\* ---------------------------------------------------------------- bounds
MaxTime == 2
MaxCalls == 3
MaxProbeCalls == 1
MaxCycles == 1
MaxLoopCycles == 2

\* ------------------------------------------------------- threads, values
Callers == {"c1", "c2"}
\* The threads that run _health_check_loop, in the order start() creates
\* them, and the threads that call start() and stop().
ProberSlots == <<"p1", "p2">>
Probers == {ProberSlots[i] : i \in 1..Len(ProberSlots)}
Reporters == {"s1"}
Owners == {"o1", "o2"}
Threads == Callers \cup Probers \cup Reporters \cup Owners

NoThread == "nobody"
Urls == {"u1", "u2", "u3"}

HEALTHY == "healthy"
DEGRADED == "degraded"
UNHEALTHY == "unhealthy"
UNKNOWN == "unknown"

\* What one requests.post + raise_for_status + json + error check can give:
\* a non-null result, a null result, or an exception.
Outcomes == {"value", "null", "raise"}

VARIABLES
    \* whether __init__ has run and how it ended
    manager,
    \* configuration, fixed by __init__
    endpoints, max_retries, circuit_breaker_threshold, circuit_breaker_timeout,
    \* the servers behind the urls (environment)
    transport,
    \* health fields of BitcoinRPCEndpoint, by url
    status, consecutive_failures, total_requests, successful_requests,
    avg_latency_ms,
    \* manager fields
    _circuit_open_until, _lock, _running, _health_check_thread,
    \* datetime.now()
    now,
    \* per thread, its activation record: pc (position), cur (index of the
    \* for loop over self.endpoints), attempt (index of the retry loop), tmp
    \* (operands loaded by +=), result, error (exception out of the call),
    \* last_exception, report (get_status's list), wait_time (the backoff
    \* being slept, in tenths of a time unit)
    frame,
    \* per caller, history of its call in progress: what it observed of each
    \* url (visit), requests sent to it, breakers at call start; per prober,
    \* history of its cycle in progress: the requests sent to each url
    history,
    \* history of the run
    dispatched, succeeded, openedUntil, unguarded, calls, cycles

config == <<manager, endpoints, max_retries, circuit_breaker_threshold,
            circuit_breaker_timeout, transport>>
lifecycle == <<_running, _health_check_thread>>
health == <<status, consecutive_failures, total_requests, successful_requests,
            avg_latency_ms>>
counts == <<dispatched, succeeded, calls, cycles>>
vars == <<config, health, _circuit_open_until, _lock, lifecycle, now, frame,
          history, counts, openedUntil, unguarded>>

\* ------------------------------------------------------------- registry
\* sorted(endpoints, key=lambda x: x.priority): a stable insertion sort.
RECURSIVE InsertByPriority(_, _)
InsertByPriority(ep, sorted) ==
    IF sorted = <<>> THEN <<ep>>
    ELSE IF ep.priority < Head(sorted).priority
         THEN <<ep>> \o sorted
         ELSE <<Head(sorted)>> \o InsertByPriority(ep, Tail(sorted))

RECURSIVE SortedByPriority(_)
SortedByPriority(list) ==
    IF list = <<>> THEN <<>>
    ELSE InsertByPriority(list[Len(list)],
                          SortedByPriority(SubSeq(list, 1, Len(list) - 1)))

\* The endpoint under a loop index, self.endpoints[-1], and the urls.
\* (`endpoint != self.endpoints[-1]` is the dataclass's field-wise comparison;
\* the urls of a registry are distinct here, so it is the comparison of urls.)
UrlAt(i) == endpoints[i].url
Endpoint(t) == UrlAt(frame[t].cur)
LastEndpoint == UrlAt(Len(endpoints))
Registered == {UrlAt(i) : i \in 1..Len(endpoints)}

NoTmp == [a |-> 0, b |-> 0]
\* A value returned by _rpc_call: who answered and what (None is "null").
Answer(who, what) == [from |-> who, body |-> what]
NoResult == Answer(NoThread, "unset")
NoError == "none"

IdleFrame ==
    [pc |-> "idle", cur |-> 1, attempt |-> 0, tmp |-> NoTmp, result |-> NoResult,
     error |-> NoError, last_exception |-> "None", report |-> <<>>, wait_time |-> 0]

NoHistory ==
    [visit |-> [u \in Urls |-> "unvisited"], sent |-> [u \in Urls |-> 0],
     untilAtStart |-> [u \in Urls |-> 0]]

\* ------------------------------------------------------------ self._lock
\* `with self._lock:` entry and exit (threading.Lock, not reentrant).
AcquireWithoutWaiting(t) == _lock' = t
Acquire(t) == _lock = NoThread /\ _lock' = t
ReleaseForgotten(t) == UNCHANGED _lock
Release(t) == _lock' = NoThread

\* A read or write of a health field or of _circuit_open_until by t while
\* `holder` has the lock.
Touch(t, holder) == unguarded' = (unguarded \/ holder # t)

\* ------------------------------------------------- for endpoint in ...
\* `continue` in rpc_call's loop; after the last endpoint the loop ends and
\* lines 267-271 raise the aggregate error.
NextEndpoint(f) ==
    IF f.cur < Len(endpoints)
    THEN [f EXCEPT !.cur = @ + 1, !.attempt = 0, !.pc = "circuit_in"]
    ELSE [f EXCEPT !.pc = "done", !.error = "AllFailed"]

\* The next endpoint of _perform_health_checks; after the last one the loop
\* body of _health_check_loop goes to time.sleep(health_check_interval).
\* `result` (line 137) is assigned again before it is next read.
NextProbe(f) ==
    IF f.cur < Len(endpoints)
    THEN [f EXCEPT !.cur = @ + 1, !.attempt = 0, !.result = NoResult, !.pc = "post"]
    ELSE [f EXCEPT !.result = NoResult, !.pc = "interval"]

\* The next element of get_status's list comprehension; after the last one
\* the `with` block is left.
NextEntry(f, entry) ==
    IF f.cur < Len(endpoints)
    THEN [f EXCEPT !.cur = @ + 1, !.pc = "circuit_in", !.report = Append(@, entry)]
    ELSE [f EXCEPT !.pc = "unlock", !.report = Append(@, entry)]

\* ---------------------------------------------------- _is_circuit_open
HasEntry(u) == u \in DOMAIN _circuit_open_until
WithoutEntry(u) ==
    [v \in DOMAIN _circuit_open_until \ {u} |-> _circuit_open_until[v]]
WithEntry(u, until) ==
    [v \in DOMAIN _circuit_open_until \cup {u} |->
        IF v = u THEN until ELSE _circuit_open_until[v]]

\* A quotient of two integers, in lowest terms.
RECURSIVE GCD(_, _)
GCD(a, b) == IF b = 0 THEN a ELSE GCD(b, a % b)
Ratio(n, d) == [num |-> n \div GCD(n, d), den |-> d \div GCD(n, d)]

\* lines 346-349: successful_requests / total_requests * 100 if
\* total_requests > 0 else 0
SuccessRateAsFraction(successful, total) ==
    IF total > 0 THEN Ratio(successful, total) ELSE Ratio(0, 1)
SuccessRate(successful, total) ==
    IF total > 0 THEN Ratio(successful * 100, total) ELSE Ratio(0, 1)

\* lines 338-352: the dict of one endpoint; "circuit_open" is evaluated
\* last, by _is_circuit_open.
StatusEntry(u, open) ==
    [url |-> u, status |-> status[u],
     consecutive_failures |-> consecutive_failures[u],
     success_rate |-> SuccessRate(successful_requests[u], total_requests[u]),
     avg_latency_ms |-> avg_latency_ms[u],
     circuit_open |-> open]

\* Where _is_circuit_open returns to: line 217 of rpc_call (skip on True), or
\* line 351 of get_status (one more entry of the list).
Visited(t, how) ==
    IF t \in Callers
    THEN [history EXCEPT ![t].visit[Endpoint(t)] = how]
    ELSE history

CircuitReturns(t, open) ==
    IF t \in Callers
    THEN /\ frame' = [frame EXCEPT ![t] =
                IF open THEN NextEndpoint(@) ELSE [@ EXCEPT !.pc = "status"]]
         /\ history' = IF open THEN Visited(t, "open") ELSE history
    ELSE /\ frame' = [frame EXCEPT ![t] = NextEntry(@, StatusEntry(Endpoint(t), open))]
         /\ UNCHANGED history

\* A KeyError out of _is_circuit_open: rpc_call calls it outside its try
\* block, so it leaves rpc_call; in get_status it leaves the `with` block.
CircuitRaises(t) ==
    /\ frame' = [frame EXCEPT ![t].error = "KeyError",
                              ![t].pc = IF t \in Callers THEN "done" ELSE "unlock"]
    /\ UNCHANGED history

\* line 187: if endpoint.url not in self._circuit_open_until: return False
CircuitIn(t) ==
    /\ frame[t].pc = "circuit_in"
    /\ Touch(t, _lock)
    /\ IF HasEntry(Endpoint(t))
       THEN frame' = [frame EXCEPT ![t].pc = "circuit_cmp"] /\ UNCHANGED history
       ELSE CircuitReturns(t, FALSE)
    /\ UNCHANGED <<config, health, _circuit_open_until, _lock, lifecycle, now,
                   counts, openedUntil>>

\* line 190: if datetime.now() < self._circuit_open_until[endpoint.url]
CircuitCmp(t) ==
    /\ frame[t].pc = "circuit_cmp"
    /\ Touch(t, _lock)
    /\ IF ~HasEntry(Endpoint(t)) THEN CircuitRaises(t)
       ELSE IF now < _circuit_open_until[Endpoint(t)] THEN CircuitReturns(t, TRUE)
       ELSE frame' = [frame EXCEPT ![t].pc = "circuit_del"] /\ UNCHANGED history
    /\ UNCHANGED <<config, health, _circuit_open_until, _lock, lifecycle, now,
                   counts, openedUntil>>

\* lines 194-195: del self._circuit_open_until[endpoint.url]; return False
CircuitDel(t) ==
    /\ frame[t].pc = "circuit_del"
    /\ Touch(t, _lock)
    /\ IF ~HasEntry(Endpoint(t))
       THEN CircuitRaises(t) /\ UNCHANGED _circuit_open_until
       ELSE /\ _circuit_open_until' = WithoutEntry(Endpoint(t))
            /\ CircuitReturns(t, FALSE)
    /\ UNCHANGED <<config, health, _lock, lifecycle, now, counts, openedUntil>>

\* ------------------------------------------------------------- rpc_call
\* lines 211-215: a caller enters rpc_call.
RpcCallStart(t) ==
    /\ t \in Callers
    /\ frame[t].pc \in {"idle", "done"}
    /\ calls > 0
    /\ calls' = calls - 1
    /\ frame' = [frame EXCEPT ![t] = [IdleFrame EXCEPT !.pc = "circuit_in"]]
    /\ history' = [history EXCEPT ![t] =
            [NoHistory EXCEPT !.untilAtStart =
                [u \in Urls |-> IF HasEntry(u) THEN _circuit_open_until[u] ELSE 0]]]
    /\ UNCHANGED <<config, health, _circuit_open_until, _lock, lifecycle, now,
                   dispatched, succeeded, cycles, openedUntil, unguarded>>

\* lines 224-229: skip an UNHEALTHY endpoint unless it is self.endpoints[-1].
SkipsNothing(u) == FALSE
SkipsUnhealthyEvenLast(u) == status[u] = UNHEALTHY
SkipsUnhealthy(u) == status[u] = UNHEALTHY /\ u # LastEndpoint

CheckStatus(t) ==
    /\ t \in Callers
    /\ frame[t].pc = "status"
    /\ Touch(t, _lock)
    /\ IF SkipsUnhealthy(Endpoint(t))
       THEN /\ frame' = [frame EXCEPT ![t] = NextEndpoint(@)]
            /\ history' = Visited(t, "unhealthy")
       ELSE /\ frame' = [frame EXCEPT ![t].pc = "post", ![t].attempt = 0]
            /\ history' = Visited(t, IF status[Endpoint(t)] = UNHEALTHY
                                     THEN "forced" ELSE "selected")
    /\ UNCHANGED <<config, health, _circuit_open_until, _lock, lifecycle, now,
                   counts, openedUntil>>

\* ------------------------------------------------------------ _rpc_call
\* line 301: attempts = self.max_retries if retry else 1; rpc_call passes
\* retry=True (line 232), _perform_health_checks retry=False (line 137).
AttemptsOneMore(t) == IF t \in Callers THEN max_retries + 1 ELSE 1
AttemptsAlwaysRetried(t) == IF t \in Callers THEN max_retries ELSE 2
Attempts(t) == IF t \in Callers THEN max_retries ELSE 1

\* line 323, negated: the attempt that failed was the last one.
LastAttemptEarly(attempt_, attempts) == ~(attempt_ < attempts - 2)
LastAttempt(attempt_, attempts) == ~(attempt_ < attempts - 1)

\* line 325: wait_time = (2 ** attempt) + (time.time() % 1), in tenths of a
\* time unit; time.time() % 1 is in [0, 1).
Jitters == {0, 9}
WaitTimeLinear(attempt_, jitter) == 10 * (2 * attempt_) + jitter
WaitTime(attempt_, jitter) == 10 * (2 ^ attempt_) + jitter

\* What the server behind u can answer.
Possible(u) ==
    CASE transport[u] = "down" -> {"raise"}
      [] transport[u] = "up" -> {"value"}
      [] OTHER -> Outcomes

\* _rpc_call returns v to line 232 (then the success block) or to line 137
\* (then `if result is not None`, line 140).
Returned(t, f, v) ==
    IF t \in Callers
    THEN [f EXCEPT !.result = v, !.pc = "success_lock"]
    ELSE [f EXCEPT !.result = v,
                   !.pc = IF v.body # "null" THEN "probe_ok_lock" ELSE "mark_lock"]

\* _rpc_call raises to line 249 (last_exception = e) or to line 160.
Raised(t, f) ==
    IF t \in Callers
    THEN [f EXCEPT !.last_exception = UrlAt(f.cur), !.pc = "failure_lock"]
    ELSE [f EXCEPT !.pc = "mark_lock"]

\* lines 303-331: one turn of `for attempt in range(attempts)`: the request
\* and what follows it; with the range exhausted the function falls off its
\* end and returns None.
Post(t) ==
    /\ frame[t].pc = "post"
    /\ IF frame[t].attempt >= Attempts(t)
       THEN /\ frame' = [frame EXCEPT ![t] = Returned(t, @, Answer(NoThread, "null"))]
            /\ UNCHANGED history
       ELSE \E o \in Possible(Endpoint(t)), jitter \in Jitters :
            /\ frame' = [frame EXCEPT ![t] =
                    IF o # "raise" THEN Returned(t, @, Answer(Endpoint(t), o))
                    ELSE IF LastAttempt(@.attempt, Attempts(t)) THEN Raised(t, @)
                    ELSE [@ EXCEPT !.pc = "sleep",
                                   !.wait_time = WaitTime(frame[t].attempt, jitter)]]
            /\ history' = [history EXCEPT ![t].sent[Endpoint(t)] = @ + 1]
    /\ UNCHANGED <<config, health, _circuit_open_until, _lock, lifecycle, now,
                   counts, openedUntil, unguarded>>

\* line 329: time.sleep(wait_time) returns, then the next attempt.
Backoff(t) ==
    /\ frame[t].pc = "sleep"
    /\ frame' = [frame EXCEPT ![t].attempt = @ + 1, ![t].pc = "post",
                              ![t].wait_time = 0]
    /\ UNCHANGED <<config, health, _circuit_open_until, _lock, lifecycle, now,
                   history, counts, openedUntil, unguarded>>

\* ------------------------------------------- rpc_call, success (235-247)
\* `with self._lock:` and the loads of the two `+= 1`.
SuccessLock(t) ==
    /\ frame[t].pc = "success_lock"
    /\ Acquire(t)
    /\ Touch(t, _lock')
    /\ frame' = [frame EXCEPT
            ![t].tmp = [a |-> successful_requests[Endpoint(t)],
                        b |-> total_requests[Endpoint(t)]],
            ![t].pc = "success_store"]
    /\ UNCHANGED <<config, health, _circuit_open_until, lifecycle, now, history,
                   counts, openedUntil>>

\* lines 241-242: if endpoint.status != HEALTHY: endpoint.status = HEALTHY
StatusAfterSuccessStale(old) == old
StatusAfterSuccess(old) == IF old # HEALTHY THEN HEALTHY ELSE old

\* line 247: return result
AfterSuccessContinue(f) == NextEndpoint([f EXCEPT !.tmp = NoTmp])
AfterSuccess(f) == [f EXCEPT !.tmp = NoTmp, !.pc = "done"]

\* lines 236-247: the stores, the release, `return result`.
SuccessStore(t) ==
    /\ frame[t].pc = "success_store"
    /\ Touch(t, _lock)
    /\ successful_requests' =
            [successful_requests EXCEPT ![Endpoint(t)] = frame[t].tmp.a + 1]
    /\ total_requests' = [total_requests EXCEPT ![Endpoint(t)] = frame[t].tmp.b + 1]
    /\ consecutive_failures' = [consecutive_failures EXCEPT ![Endpoint(t)] = 0]
    /\ status' = [status EXCEPT ![Endpoint(t)] = StatusAfterSuccess(@)]
    /\ UNCHANGED avg_latency_ms
    /\ Release(t)
    /\ frame' = [frame EXCEPT ![t] = AfterSuccess(@)]
    /\ dispatched' = [dispatched EXCEPT ![Endpoint(t)] = @ + 1]
    /\ succeeded' = [succeeded EXCEPT ![Endpoint(t)] = @ + 1]
    /\ UNCHANGED <<config, _circuit_open_until, lifecycle, now, history, calls,
                   cycles, openedUntil>>

\* ------------------------------------------- rpc_call, failure (249-265)
\* `with self._lock:` and the loads of the two `+= 1`.
FailureLock(t) ==
    /\ frame[t].pc = "failure_lock"
    /\ Acquire(t)
    /\ Touch(t, _lock')
    /\ frame' = [frame EXCEPT
            ![t].tmp = [a |-> total_requests[Endpoint(t)],
                        b |-> consecutive_failures[Endpoint(t)]],
            ![t].pc = "failure_store"]
    /\ UNCHANGED <<config, health, _circuit_open_until, lifecycle, now, history,
                   counts, openedUntil>>

\* lines 256-258: the stores and the release.
FailureStore(t) ==
    /\ frame[t].pc = "failure_store"
    /\ Touch(t, _lock)
    /\ total_requests' = [total_requests EXCEPT ![Endpoint(t)] = frame[t].tmp.a + 1]
    /\ consecutive_failures' =
            [consecutive_failures EXCEPT ![Endpoint(t)] = frame[t].tmp.b + 1]
    /\ Release(t)
    /\ frame' = [frame EXCEPT ![t].tmp = NoTmp, ![t].pc = "threshold"]
    /\ dispatched' = [dispatched EXCEPT ![Endpoint(t)] = @ + 1]
    /\ UNCHANGED <<config, status, successful_requests, avg_latency_ms,
                   _circuit_open_until,
                   lifecycle, now, history, succeeded, calls, cycles, openedUntil>>

\* lines 172 and 261: consecutive_failures >= circuit_breaker_threshold
TrippedLate(failures) == failures > circuit_breaker_threshold
Tripped(failures) == failures >= circuit_breaker_threshold

\* lines 261-265: the threshold test, read after the lock was released.
CheckThreshold(t) ==
    /\ frame[t].pc = "threshold"
    /\ Touch(t, _lock)
    /\ frame' = [frame EXCEPT ![t] =
            IF Tripped(consecutive_failures[Endpoint(t)])
            THEN [@ EXCEPT !.pc = "mark_lock"]
            ELSE NextEndpoint(@)]
    /\ UNCHANGED <<config, health, _circuit_open_until, _lock, lifecycle, now,
                   history, counts, openedUntil>>

\* ------------------------------------ _mark_endpoint_unhealthy (166-183)
\* `with self._lock:` and the load of `consecutive_failures += 1`.
MarkLock(t) ==
    /\ frame[t].pc = "mark_lock"
    /\ Acquire(t)
    /\ Touch(t, _lock')
    /\ frame' = [frame EXCEPT
            ![t].tmp = [a |-> consecutive_failures[Endpoint(t)], b |-> 0],
            ![t].pc = "mark_store"]
    /\ UNCHANGED <<config, health, _circuit_open_until, lifecycle, now, history,
                   counts, openedUntil>>

\* Where _mark_endpoint_unhealthy returns to: line 265 (continue) or the
\* next endpoint of the probe cycle.
AfterMarkLeavesLoop(t, f) ==
    IF t \in Callers THEN NextEndpoint(f) ELSE [f EXCEPT !.pc = "exited"]
AfterMark(t, f) == IF t \in Callers THEN NextEndpoint(f) ELSE NextProbe(f)

\* lines 169-183: the store, the status, the breaker, the release.
MarkStore(t) ==
    LET u == Endpoint(t)
        failures == frame[t].tmp.a + 1
    IN  /\ frame[t].pc = "mark_store"
        /\ Touch(t, _lock)
        /\ consecutive_failures' = [consecutive_failures EXCEPT ![u] = failures]
        /\ IF Tripped(failures)
           THEN /\ status' = [status EXCEPT ![u] = UNHEALTHY]
                /\ _circuit_open_until' = WithEntry(u, now + circuit_breaker_timeout)
                /\ openedUntil' =
                        [openedUntil EXCEPT ![u] = now + circuit_breaker_timeout]
           ELSE /\ status' = [status EXCEPT ![u] = DEGRADED]
                /\ UNCHANGED <<_circuit_open_until, openedUntil>>
        /\ Release(t)
        /\ frame' = [frame EXCEPT ![t] = AfterMark(t, [@ EXCEPT !.tmp = NoTmp])]
        /\ UNCHANGED <<config, total_requests, successful_requests,
                       avg_latency_ms, lifecycle, now,
                       history, counts>>

\* --------------------------------------------------- _health_check_loop
\* line 123: `while self._running:`; a true test starts a cycle of
\* _perform_health_checks with its first endpoint, a false one ends the thread.
LoopGoesOnDeaf == TRUE
LoopGoesOn == _running

LoopTest(t) ==
    /\ t \in Probers
    /\ frame[t].pc = "loop"
    /\ IF LoopGoesOn
       THEN /\ cycles > 0
            /\ cycles' = cycles - 1
            /\ frame' = [frame EXCEPT ![t].cur = 1, ![t].attempt = 0, ![t].pc = "post"]
       ELSE /\ frame' = [frame EXCEPT ![t].pc = "exited"]
            /\ UNCHANGED cycles
    /\ UNCHANGED <<config, health, _circuit_open_until, _lock, lifecycle, now,
                   history, dispatched, succeeded, calls, openedUntil, unguarded>>

\* line 141: `with self._lock:` of the successful probe.
ProbeOkLock(t) ==
    /\ frame[t].pc = "probe_ok_lock"
    /\ Acquire(t)
    /\ frame' = [frame EXCEPT ![t].pc = "probe_ok_store"]
    /\ UNCHANGED <<config, health, _circuit_open_until, lifecycle, now, history,
                   counts, openedUntil, unguarded>>

\* line 138: latency = (time.time() - start_time) * 1000, in milliseconds;
\* the servers of the model answer in 20 ms.
Latencies == {20}

\* lines 146-151: the first sample is taken as it is, later ones enter the
\* rolling average with weight 0.1 (as an exact fraction).
Smoothed(avg, latency) ==
    IF avg = Ratio(0, 1)
    THEN Ratio(latency, 1)
    ELSE Ratio(9 * avg.num + latency * avg.den, 10 * avg.den)

\* lines 142-151: the stores of the successful probe and the release.
ProbeOkStoreCounted(t) ==
    /\ frame[t].pc = "probe_ok_store"
    /\ Touch(t, _lock)
    /\ status' = [status EXCEPT ![Endpoint(t)] = HEALTHY]
    /\ consecutive_failures' = [consecutive_failures EXCEPT ![Endpoint(t)] = 0]
    /\ total_requests' = [total_requests EXCEPT ![Endpoint(t)] = @ + 1]
    /\ successful_requests' = [successful_requests EXCEPT ![Endpoint(t)] = @ + 1]
    /\ \E latency \in Latencies :
            avg_latency_ms' = [avg_latency_ms EXCEPT ![Endpoint(t)] = Smoothed(@, latency)]
    /\ Release(t)
    /\ frame' = [frame EXCEPT ![t] = NextProbe(@)]
    /\ UNCHANGED <<config, _circuit_open_until, lifecycle, now, history, counts,
                   openedUntil>>

ProbeOkStore(t) ==
    /\ frame[t].pc = "probe_ok_store"
    /\ Touch(t, _lock)
    /\ status' = [status EXCEPT ![Endpoint(t)] = HEALTHY]
    /\ consecutive_failures' = [consecutive_failures EXCEPT ![Endpoint(t)] = 0]
    /\ \E latency \in Latencies :
            avg_latency_ms' = [avg_latency_ms EXCEPT ![Endpoint(t)] = Smoothed(@, latency)]
    /\ Release(t)
    /\ frame' = [frame EXCEPT ![t] = NextProbe(@)]
    /\ UNCHANGED <<config, total_requests, successful_requests,
                   _circuit_open_until, lifecycle, now, history, counts, openedUntil>>

\* line 129: time.sleep(self.health_check_interval); the cycle is over and
\* its history is dropped.
Interval(t) ==
    /\ frame[t].pc = "interval"
    /\ frame' = [frame EXCEPT ![t].pc = "loop"]
    /\ history' = [history EXCEPT ![t] = NoHistory]
    /\ UNCHANGED <<config, health, _circuit_open_until, _lock, lifecycle, now,
                   counts, openedUntil, unguarded>>

\* ----------------------------------------------------------- start, stop
\* The threads that are in _health_check_loop, and the slots for new ones.
Alive == {p \in Probers : frame[p].pc \notin {"idle", "exited"}}
FreeSlot(i) == frame[ProberSlots[i]].pc \in {"idle", "exited"}
\* The owners between line 102 and line 111 of start().
Starting == {o \in Owners : frame[o].pc \in {"start_set", "start_spawn"}}

\* line 102: `if self._running:`; a running manager goes to the warning, a
\* manager that is not running goes on to line 106.  (The threads of the
\* model are those of ProberSlots: a start() is begun only while there is a
\* slot for the thread it may create.)
StartTest(o) ==
    /\ o \in Owners
    /\ frame[o].pc = "idle"
    /\ _running \/
        Cardinality({i \in 1..Len(ProberSlots) : FreeSlot(i)}) > Cardinality(Starting)
    /\ frame' = [frame EXCEPT ![o].pc = IF _running THEN "warn" ELSE "start_set"]
    /\ UNCHANGED <<config, health, _circuit_open_until, _lock, lifecycle, now,
                   history, counts, openedUntil, unguarded>>

\* lines 103-104: logger.warning(...); return
StartWarn(o) ==
    /\ frame[o].pc = "warn"
    /\ frame' = [frame EXCEPT ![o].pc = "idle"]
    /\ UNCHANGED <<config, health, _circuit_open_until, _lock, lifecycle, now,
                   history, counts, openedUntil, unguarded>>

\* line 106: self._running = True
StartSet(o) ==
    /\ frame[o].pc = "start_set"
    /\ _running' = TRUE
    /\ frame' = [frame EXCEPT ![o].pc = "start_spawn"]
    /\ UNCHANGED <<config, health, _circuit_open_until, _lock,
                   _health_check_thread, now, history, counts, openedUntil,
                   unguarded>>

\* lines 107-112: a new daemon thread is created, stored in
\* _health_check_thread and started in _health_check_loop.
StartSpawn(o) ==
    /\ frame[o].pc = "start_spawn"
    /\ LET i == CHOOSE k \in 1..Len(ProberSlots) :
                    FreeSlot(k) /\ \A j \in 1..(k - 1) : ~FreeSlot(j)
       IN  /\ _health_check_thread' = ProberSlots[i]
           /\ frame' = [frame EXCEPT ![ProberSlots[i]] = [IdleFrame EXCEPT !.pc = "loop"],
                                     ![o].pc = "idle"]
    /\ UNCHANGED <<config, health, _circuit_open_until, _lock, _running, now,
                   history, counts, openedUntil, unguarded>>

\* lines 116-117: self._running = False; with a thread to wait for, the
\* join follows.
StopClear(o) ==
    /\ o \in Owners
    /\ frame[o].pc = "idle"
    /\ _running' = FALSE
    /\ frame' = [frame EXCEPT ![o].pc =
            IF _health_check_thread # NoThread THEN "join" ELSE "idle"]
    /\ UNCHANGED <<config, health, _circuit_open_until, _lock,
                   _health_check_thread, now, history, counts, openedUntil,
                   unguarded>>

\* lines 118-119: join(timeout=5) returns when the thread has ended or when
\* the timeout has passed, whichever is first; stop() returns.
StopJoin(o) ==
    /\ frame[o].pc = "join"
    /\ frame' = [frame EXCEPT ![o].pc = "idle"]
    /\ UNCHANGED <<config, health, _circuit_open_until, _lock, lifecycle, now,
                   history, counts, openedUntil, unguarded>>

\* ----------------------------------------------------------- get_status
\* line 335: `with self._lock:`, then the list comprehension's first element.
GetStatusLock(t) ==
    /\ t \in Reporters
    /\ frame[t].pc \in {"idle", "done"}
    /\ Acquire(t)
    /\ frame' = [frame EXCEPT ![t] = [IdleFrame EXCEPT !.pc = "circuit_in"]]
    /\ UNCHANGED <<config, health, _circuit_open_until, lifecycle, now, history,
                   counts, openedUntil, unguarded>>

\* The end of the `with` block, by return or by exception.
GetStatusUnlock(t) ==
    /\ frame[t].pc = "unlock"
    /\ Release(t)
    /\ frame' = [frame EXCEPT ![t].pc = "done"]
    /\ UNCHANGED <<config, health, _circuit_open_until, lifecycle, now, history,
                   counts, openedUntil, unguarded>>

\* ------------------------------------------------------------------ time
Tick ==
    /\ now < MaxTime
    /\ now' = now + 1
    /\ UNCHANGED <<config, health, _circuit_open_until, _lock, lifecycle, frame,
                   history, counts, openedUntil, unguarded>>

\* --------------------------------------------------------------- __init__
\* Endpoint lists given to the constructor (url and priority; the second is
\* not in priority order) and tunables.
OneEndpoint == <<[url |-> "u1", priority |-> 0]>>
TwoEndpoints == <<[url |-> "u2", priority |-> 1], [url |-> "u1", priority |-> 0]>>

Tunables(retries, threshold, timeout) ==
    [retries |-> retries, threshold |-> threshold, timeout |-> timeout]

\* line 80: `if not endpoints:`
RejectedWhenShort(list) == Len(list) < 2
Rejected(list) == list = <<>>

\* line 83: self.endpoints = sorted(endpoints, key=lambda x: x.priority)
RegistryAsGiven(list) == list
Registry(list) == SortedByPriority(list)

\* The tunables and the fields that lines 84-94 and the dataclass defaults
\* set; `servers` is the behaviour of the nodes, `rpcCalls` and `probeCycles`
\* what the run is allowed to do.
Fresh(tune, servers, rpcCalls, probeCycles) ==
    /\ max_retries = tune.retries
    /\ circuit_breaker_threshold = tune.threshold
    /\ circuit_breaker_timeout = tune.timeout
    /\ transport = servers
    /\ status = [u \in Urls |-> UNKNOWN]
    /\ consecutive_failures = [u \in Urls |-> 0]
    /\ total_requests = [u \in Urls |-> 0]
    /\ successful_requests = [u \in Urls |-> 0]
    /\ avg_latency_ms = [u \in Urls |-> Ratio(0, 1)]
    /\ _circuit_open_until = << >>
    /\ _lock = NoThread
    /\ _running = FALSE
    /\ _health_check_thread = NoThread
    /\ now = 0
    /\ frame = [t \in Threads |-> IdleFrame]
    /\ history = [t \in Callers \cup Probers |-> NoHistory]
    /\ dispatched = [u \in Urls |-> 0]
    /\ succeeded = [u \in Urls |-> 0]
    /\ openedUntil = [u \in Urls |-> 0]
    /\ unguarded = FALSE
    /\ calls = rpcCalls
    /\ cycles = probeCycles

\* lines 80-98, for a non-empty list: the state after construction.
Constructed(list, tune, servers, rpcCalls, probeCycles) ==
    /\ manager = "constructed"
    /\ endpoints = Registry(list)
    /\ Fresh(tune, servers, rpcCalls, probeCycles)

\* lines 62-98 as a step: `endpoints` holds the argument until line 83
\* replaces it by the registry; an empty argument raises ValueError (line
\* 81) and there is no manager.
Construct ==
    /\ manager = "none"
    /\ IF Rejected(endpoints)
       THEN manager' = "ValueError" /\ UNCHANGED endpoints
       ELSE manager' = "constructed" /\ endpoints' = Registry(endpoints)
    /\ UNCHANGED <<max_retries, circuit_breaker_threshold, circuit_breaker_timeout,
                   transport, health, _circuit_open_until, _lock, lifecycle, now,
                   frame, history, counts, openedUntil, unguarded>>

AnyAnswer == [u \in Urls |-> "any"]
TwoDownOneUp == [u \in Urls |-> IF u = "u3" THEN "up" ELSE "down"]

\* ------------------------------------------------------------ the threads
CallerStep(t) ==
    \/ RpcCallStart(t)
    \/ CircuitIn(t)
    \/ CircuitCmp(t)
    \/ CircuitDel(t)
    \/ CheckStatus(t)
    \/ Post(t)
    \/ Backoff(t)
    \/ SuccessLock(t)
    \/ SuccessStore(t)
    \/ FailureLock(t)
    \/ FailureStore(t)
    \/ CheckThreshold(t)
    \/ MarkLock(t)
    \/ MarkStore(t)

ProberStep(t) ==
    \/ LoopTest(t)
    \/ Post(t)
    \/ ProbeOkLock(t)
    \/ ProbeOkStore(t)
    \/ MarkLock(t)
    \/ MarkStore(t)
    \/ Interval(t)

StartStep(o) ==
    \/ StartTest(o)
    \/ StartWarn(o)
    \/ StartSet(o)
    \/ StartSpawn(o)

StopStep(o) ==
    \/ StopClear(o)
    \/ StopJoin(o)

ReporterStep(t) ==
    \/ GetStatusLock(t)
    \/ CircuitIn(t)
    \/ CircuitCmp(t)
    \/ CircuitDel(t)
    \/ GetStatusUnlock(t)

\* ------------------------------------------- concurrent callers of rpc_call
Init ==
    \E d \in { <<OneEndpoint, Tunables(1, 1, 1)>>,
               <<OneEndpoint, Tunables(2, 2, 1)>>,
               <<TwoEndpoints, Tunables(0, 1, 1)>>,
               <<TwoEndpoints, Tunables(1, 2, 1)>> } :
        Constructed(d[1], d[2], AnyAnswer, MaxCalls, 0)

Next ==
    \/ \E t \in Callers : CallerStep(t)
    \/ Tick

Spec == Init /\ [][Next]_vars

\* ----------------- one caller and the health checker, started and not stopped
InitProbe ==
    \E d \in { <<OneEndpoint, Tunables(2, 1, 1)>>,
               <<TwoEndpoints, Tunables(1, 2, 1)>> } :
        Constructed(d[1], d[2], AnyAnswer, MaxProbeCalls, MaxCycles)

ProbeNext ==
    \/ CallerStep("c1")
    \/ \E t \in Probers : ProberStep(t)
    \/ StartStep("o1")
    \/ Tick

SpecProbe == InitProbe /\ [][ProbeNext]_vars

\* ------- one caller and the health checker, the first server unreliable
FirstFlaky == [u \in Urls |-> IF u = "u1" THEN "any" ELSE "up"]

InitMark ==
    \E d \in { <<TwoEndpoints, Tunables(2, 2, 1)>>,
               <<TwoEndpoints, Tunables(1, 1, 1)>> } :
        Constructed(d[1], d[2], FirstFlaky, MaxProbeCalls, MaxCycles)

SpecMark == InitMark /\ [][ProbeNext]_vars

\* Every thread that can take a step eventually takes one (the interpreter
\* switches threads; a network request returns or times out).
SpecMarkFair ==
    /\ SpecMark
    /\ WF_vars(CallerStep("c1"))
    /\ \A t \in Probers : WF_vars(ProberStep(t))

\* ------------------------------------------- one caller and get_status
InitStatus ==
    \E d \in { <<OneEndpoint, Tunables(1, 1, 1)>>,
               <<OneEndpoint, Tunables(2, 2, 1)>>,
               <<TwoEndpoints, Tunables(1, 2, 1)>> } :
        Constructed(d[1], d[2], AnyAnswer, MaxCalls, 0)

StatusNext ==
    \/ CallerStep("c1")
    \/ \E t \in Reporters : ReporterStep(t)
    \/ Tick

SpecStatus == InitStatus /\ [][StatusNext]_vars

\* ------------------------------- the constructor and every operation
\* Argument lists: empty, and with two endpoints of the same priority.
NoEndpoints == <<>>
TiedEndpoints == <<[url |-> "u3", priority |-> 0], [url |-> "u1", priority |-> 0]>>

InitConstruct ==
    \E list \in {NoEndpoints, OneEndpoint, TwoEndpoints, TiedEndpoints} :
        /\ manager = "none"
        /\ endpoints = list
        /\ Fresh(Tunables(1, 1, 1), TwoDownOneUp, MaxProbeCalls, MaxCycles)

\* The client of the example (lines 388-401) is one thread: it is in one
\* operation of the manager at a time, beside the health-check threads, and
\* stop() is the last thing it does to the health checks (a manager that
\* has a thread and is not running has been stopped).
ClientIn(t) ==
    \A other \in (Callers \cup Reporters \cup Owners) \ {t} :
        frame[other].pc \in {"idle", "done"}
NotStopped == _running \/ _health_check_thread = NoThread

NextConstruct ==
    \/ Construct
    \/ /\ manager = "constructed"
       /\ \/ ClientIn("c1") /\ CallerStep("c1")
          \/ ClientIn("s1") /\ ReporterStep("s1")
          \/ ClientIn("o1") /\ NotStopped /\ StartStep("o1")
          \/ ClientIn("o1") /\ StopStep("o1")
          \/ \E t \in Probers : ProberStep(t)
          \/ Tick

SpecConstruct == InitConstruct /\ [][NextConstruct]_vars

\* ------------------------------------ start() from two threads, no stop()
InitStart ==
    Constructed(TwoEndpoints, Tunables(1, 2, 1), AnyAnswer, 0, MaxCycles)

NextStart ==
    \/ \E o \in Owners : StartStep(o)
    \/ \E t \in Probers : ProberStep(t)
    \/ Tick

SpecStart == InitStart /\ [][NextStart]_vars

\* ------------- start() and stop() by one thread, the health-check threads
InitLoop ==
    \E tune \in {Tunables(1, 1, 1), Tunables(1, 2, 1)} :
        Constructed(TwoEndpoints, tune, AnyAnswer, 0, MaxLoopCycles)

\* (No thread here reads the breaker map, so nothing depends on the clock:
\* the runs are those within one time unit.)
NextLoop ==
    \/ StartStep("o1")
    \/ StopStep("o1")
    \/ \E t \in Probers : ProberStep(t)

SpecLoop == InitLoop /\ [][NextLoop]_vars

\* A started thread keeps running: requests return or time out (line 309),
\* time.sleep returns, and the lock is released by whoever holds it.
SpecLoopFair == SpecLoop /\ \A t \in Probers : WF_vars(ProberStep(t))

\* --------------------------------------- one caller with three attempts
InitBackoff ==
    \E list \in {OneEndpoint, TwoEndpoints} :
        Constructed(list, Tunables(3, 2, 1), AnyAnswer, MaxCalls, 0)

NextBackoff ==
    \/ CallerStep("c1")
    \/ Tick

SpecBackoff == InitBackoff /\ [][NextBackoff]_vars

\* ----------------- three endpoints, the first two down, the third answering
ThreeEndpoints ==
    <<[url |-> "u3", priority |-> 2], [url |-> "u1", priority |-> 0],
      [url |-> "u2", priority |-> 1]>>

InitFailover ==
    \E tune \in { Tunables(0, 1, 1), Tunables(1, 1, 1), Tunables(1, 3, 1),
                  Tunables(2, 2, 1) } :
        Constructed(ThreeEndpoints, tune, TwoDownOneUp, MaxCalls, 0)

NextFailover ==
    \/ CallerStep("c1")
    \/ Tick

SpecFailover == InitFailover /\ [][NextFailover]_vars

\* ================================================================ claims
\* The outcome of a caller's last rpc_call.
CallFailed(c) == frame[c].pc = "done" /\ frame[c].error = "AllFailed"
CallReturned(c) == frame[c].pc = "done" /\ frame[c].error = NoError
\* What the call in progress did with u at lines 217-229.
Skipped(c, u) == history[c].visit[u] \in {"open", "unhealthy"}
Dispatched(c, u) == history[c].visit[u] \in {"selected", "forced"}
\* c is sending, or about to send, a request to u.
Requesting(c, u) ==
    /\ frame[c].pc = "post"
    /\ Endpoint(c) = u
    /\ frame[c].attempt < Attempts(c)
\* No caller is between the failure block's release and line 262 for u.
Settled(u) ==
    \A c \in Callers :
        frame[c].pc \in {"threshold", "mark_lock", "mark_store"} => Endpoint(c) # u
\* The endpoints after u in the registry.
After(u) ==
    {UrlAt(j) : j \in {k \in 1..Len(endpoints) :
                        \E i \in 1..Len(endpoints) : UrlAt(i) = u /\ i < k}}

\* C1: when rpc_call raises the aggregate error, every endpoint of the
\* registry was dispatched to and was sent max_retries requests (none was
\* merely skipped).
C1_FailsOnlyAfterEveryEndpointTried ==
    \A c \in Callers :
        CallFailed(c) =>
            \A u \in Registered :
                Dispatched(c, u) /\ history[c].sent[u] = max_retries

\* C1, amended: when rpc_call raises the aggregate error, no request of the
\* call was answered, and every endpoint was either skipped without a single
\* request (breaker open; UNHEALTHY and not last) or was dispatched to and
\* sent max_retries >= 1 requests.
C1_FailsOnlyAfterEveryUnskippedEndpointExhausted ==
    \A c \in Callers :
        CallFailed(c) =>
            /\ frame[c].result = NoResult
            /\ \A u \in Registered :
                \/ Skipped(c, u) /\ history[c].sent[u] = 0
                \/ /\ Dispatched(c, u)
                   /\ max_retries >= 1
                   /\ history[c].sent[u] = max_retries

C1_Witness ==
    \E c \in Callers, u, v \in Registered :
        /\ CallFailed(c)
        /\ Skipped(c, u)
        /\ Dispatched(c, v)
        /\ history[c].sent[v] = max_retries

\* C2: while the timeout of the last opening of u's breaker has not elapsed
\* the breaker entry is there with that deadline; a call that began with u's
\* breaker open sends u, unless u is the last endpoint, no request before
\* that deadline; and an endpoint that has reached the threshold, once the
\* failure is fully recorded, is UNHEALTHY and has had its breaker opened.
C2_BreakerOpenUntilTimeout ==
    /\ \A u \in Registered :
        now < openedUntil[u] =>
            HasEntry(u) /\ _circuit_open_until[u] = openedUntil[u]
    /\ \A c \in Callers : \A u \in Registered :
        (u # LastEndpoint /\ Requesting(c, u)) => now >= history[c].untilAtStart[u]
    /\ \A u \in Registered :
        (Settled(u) /\ Tripped(consecutive_failures[u])) =>
            status[u] = UNHEALTHY /\ openedUntil[u] > 0

\* C3: an endpoint for which _is_circuit_open returned True gets no request,
\* last or not; an endpoint read as UNHEALTHY (breaker not open) is skipped
\* exactly when it is not the last one; requests go only to endpoints that
\* were not skipped.  The second conjunct ties the recorded observations to
\* the state the decision was taken in.
C3_SkipRulesAsymmetric ==
    /\ [](\A c \in Callers : \A u \in Registered :
            /\ history[c].visit[u] = "open" =>
                    history[c].sent[u] = 0 /\ ~Requesting(c, u)
            /\ history[c].visit[u] = "unhealthy" =>
                    u # LastEndpoint /\ history[c].sent[u] = 0 /\ ~Requesting(c, u)
            /\ history[c].visit[u] = "forced" => u = LastEndpoint
            /\ (Requesting(c, u) \/ history[c].sent[u] > 0) => Dispatched(c, u))
    /\ [][\A c \in Callers :
            LET u == Endpoint(c)
            IN  /\ ( /\ frame[c].pc = "circuit_cmp"
                     /\ frame'[c] # frame[c]
                     /\ HasEntry(u)
                     /\ now < _circuit_open_until[u] )
                    => history'[c].visit[u] = "open"
                /\ ( /\ frame[c].pc = "status"
                     /\ frame'[c] # frame[c]
                     /\ status[u] = UNHEALTHY )
                    => history'[c].visit[u] =
                            IF u = LastEndpoint THEN "forced" ELSE "unhealthy"
       ]_vars

\* One call skipped the last endpoint on its open breaker and failed; a
\* later one found the same endpoint UNHEALTHY with the breaker expired and
\* sent it a request.
C3_Witness ==
    \E c, d \in Callers :
        /\ CallFailed(c)
        /\ history[c].visit[LastEndpoint] = "open"
        /\ history[d].visit[LastEndpoint] = "forced"
        /\ history[d].sent[LastEndpoint] > 0

\* C4: once a request of the call has been answered, the call is at that
\* endpoint, no later endpoint of the registry is looked at or sent a
\* request, and the call ends by returning (the answer is its result).
C4_SuccessEndsTheCall ==
    \A c \in Callers :
        frame[c].result.from \in Registered =>
            /\ Endpoint(c) = frame[c].result.from
            /\ \A v \in After(frame[c].result.from) :
                /\ history[c].visit[v] = "unvisited"
                /\ history[c].sent[v] = 0
            /\ frame[c].pc = "done" => frame[c].error = NoError

C4_Witness ==
    \E c \in Callers :
        /\ CallReturned(c)
        /\ Len(endpoints) >= 2
        /\ frame[c].result = Answer(UrlAt(1), "value")
        /\ history[c].visit[UrlAt(2)] = "unvisited"

\* C5: the only exception that leaves rpc_call is the aggregate one.
C5_OnlyAggregateError ==
    \A c \in Callers : frame[c].error \in {NoError, "AllFailed"}

\* C6: for every endpoint total_requests is the number of dispatches whose
\* bookkeeping is done and successful_requests the number of those that
\* returned.
C6_NoLostCounterUpdate ==
    \A u \in Registered :
        /\ total_requests[u] = dispatched[u]
        /\ successful_requests[u] = succeeded[u]

\* Two callers in the bookkeeping of the same endpoint, one inside the lock
\* and one waiting for it.
C6_Witness ==
    \E c, d \in Callers :
        /\ frame[c].pc \in {"success_store", "failure_store"}
        /\ frame[d].pc \in {"success_lock", "failure_lock"}
        /\ Endpoint(c) = Endpoint(d)
        /\ total_requests[Endpoint(c)] >= 1

\* C7: no health field and no breaker entry is read or written by a thread
\* that does not hold the lock.
C7_EveryAccessUnderLock == ~unguarded

\* C8: a thread that is in a network request or in a backoff sleep does not
\* hold the lock.
C8_NoLockAcrossIO ==
    \A t \in Threads : frame[t].pc \in {"post", "sleep"} => _lock # t

\* A caller sleeps between two attempts and the health checker is in its
\* request while neither holds the lock.
C8_Witness ==
    \E c \in Callers, p \in Probers :
        /\ frame[c].pc = "sleep"
        /\ frame[p].pc = "post"
        /\ _lock = NoThread

\* C9: the step that commits a successful rpc_call on an endpoint leaves it
\* with consecutive_failures = 0 and status HEALTHY.
C9_SuccessResets ==
    [][\A c \in Callers :
        (frame[c].pc = "success_store" /\ frame'[c].pc # "success_store") =>
            /\ consecutive_failures'[Endpoint(c)] = 0
            /\ status'[Endpoint(c)] = HEALTHY
      ]_vars

\* A success about to be committed on an endpoint that is UNHEALTHY after
\* failures.
C9_Witness ==
    \E c \in Callers :
        /\ frame[c].pc = "success_store"
        /\ consecutive_failures[Endpoint(c)] >= 2
        /\ status[Endpoint(c)] = UNHEALTHY

\* C10: the first rpc_call of a manager with three endpoints, the first two
\* down and the third up, returns the third endpoint's answer and leaves the
\* first two with a consecutive_failures above the initial 0.
FirstCallDone == calls = MaxCalls - 1 /\ frame["c1"].pc = "done"

C10_ThirdEndpointAnswers ==
    FirstCallDone =>
        /\ CallReturned("c1")
        /\ frame["c1"].result = Answer("u3", "value")
        /\ consecutive_failures["u1"] > 0
        /\ consecutive_failures["u2"] > 0

\* C11: when rpc_call raises the aggregate error, the error it names is an
\* actual failure, the one of the last endpoint the call sent requests to
\* (it is never None).
LastAttempted(c) ==
    UrlAt(CHOOSE i \in 1..Len(endpoints) :
            /\ history[c].sent[UrlAt(i)] > 0
            /\ \A j \in (i + 1)..Len(endpoints) : history[c].sent[UrlAt(j)] = 0)

C11_AggregateNamesLastFailure ==
    \A c \in Callers :
        CallFailed(c) =>
            /\ frame[c].last_exception # "None"
            /\ \E u \in Registered : history[c].sent[u] > 0
            /\ frame[c].last_exception = LastAttempted(c)

\* C12: the constructor given an empty list ends in ValueError and leaves
\* no manager (nothing ever runs on it); given a non-empty list it ends with
\* a manager that has every endpoint of the list.
C12_ConstructionFailsOnlyWhenEmpty ==
    /\ [](manager = "ValueError" =>
            endpoints = <<>> /\ \A t \in Threads : frame[t] = IdleFrame)
    /\ [](manager = "constructed" => endpoints # <<>>)
    /\ [][(manager = "none" /\ manager' # "none") =>
            IF endpoints = <<>>
            THEN manager' = "ValueError"
            ELSE /\ manager' = "constructed"
                 /\ Len(endpoints') = Len(endpoints)
                 /\ \A i \in 1..Len(endpoints) :
                        \E j \in 1..Len(endpoints) : endpoints'[j] = endpoints[i]
       ]_vars

C12_Witness == manager = "ValueError" /\ endpoints = NoEndpoints

\* C13: the registry of a constructed manager is in ascending priority
\* order, and no step of any operation changes it.
Ascending(registry) ==
    \A i, j \in 1..Len(registry) :
        i < j => registry[i].priority <= registry[j].priority

C13_RegistryOrderFixed ==
    /\ [](manager = "constructed" => Ascending(endpoints))
    /\ [][manager = "constructed" => endpoints' = endpoints]_vars

\* A manager built from a list that was not in priority order, after a
\* failed rpc_call that opened a breaker, a get_status, and a health-check
\* thread that was started, ran a cycle and was stopped.
C13_Witness ==
    /\ manager = "constructed"
    /\ endpoints = <<TwoEndpoints[2], TwoEndpoints[1]>>
    /\ CallFailed("c1")
    /\ HasEntry("u1")
    /\ frame["s1"].pc = "done"
    /\ \E p \in Probers : frame[p].pc = "exited"
    /\ cycles = 0

\* C14: a start() that finds the manager running returns after the warning:
\* it creates no thread, changes no field and raises nothing; and as long as
\* stop() is not called there is never more than one thread in
\* _health_check_loop, and exactly one once a start() has returned.
C14_StartIdempotent ==
    /\ [][\A o \in Owners :
            (frame[o].pc = "idle" /\ frame'[o].pc # "idle" /\ _running) =>
                /\ frame'[o].pc = "warn"
                /\ frame'[o].error = NoError
                /\ \A p \in Probers : frame'[p] = frame[p]
                /\ UNCHANGED lifecycle
       ]_vars
    /\ [](Cardinality(Alive) <= 1)
    /\ []((_running /\ Starting = {}) => Cardinality(Alive) = 1)

\* C15: a probe cycle begins only while _running is set, stop() clears it,
\* and once it stays cleared with no start() in progress every health-check
\* thread ends.
C15_StopEndsTheLoop ==
    /\ [][\A p \in Probers :
            (frame[p].pc = "loop" /\ frame'[p].pc = "post") => _running]_vars
    /\ [][\A o \in Owners :
            (frame[o].pc = "idle" /\ frame'[o].pc = "join") => ~_running']_vars
    /\ (<>[](~_running /\ Starting = {})) => <>[](Alive = {})

\* stop() was called while a cycle was in flight, the cycle was finished
\* and the thread has ended.
C15_Witness ==
    \E p \in Probers :
        /\ frame[p].pc = "exited"
        /\ ~_running
        /\ cycles < MaxLoopCycles
        /\ \E u \in Registered : status[u] # UNKNOWN

\* C16: no exception leaves a health-check thread; a thread ends only at
\* the loop test, with _running cleared; a probe that failed is followed by
\* the probe of the next endpoint, or after the last endpoint by the sleep;
\* and a thread that recorded a failed probe comes back to the loop test.
C16_ProbeFailureContained ==
    /\ [](\A p \in Probers : frame[p].error = NoError)
    /\ [][\A p \in Probers :
            /\ (frame[p].pc # "exited" /\ frame'[p].pc = "exited") =>
                    frame[p].pc = "loop" /\ ~_running
            /\ (frame[p].pc = "mark_store" /\ frame'[p].pc # "mark_store") =>
                    IF frame[p].cur < Len(endpoints)
                    THEN frame'[p].pc = "post" /\ frame'[p].cur = frame[p].cur + 1
                    ELSE frame'[p].pc = "interval"
       ]_vars
    /\ \A p \in Probers : (frame[p].pc = "mark_lock") ~> (frame[p].pc = "loop")

\* In the second cycle of the run the probe of the first endpoint has failed
\* and the thread is at the request to the second endpoint.
C16_Witness ==
    \E p \in Probers :
        /\ frame[p].pc = "post"
        /\ frame[p].cur = 2
        /\ history[p].sent[UrlAt(1)] = 1
        /\ status[UrlAt(1)] \in {DEGRADED, UNHEALTHY}
        /\ cycles = 0

\* C17: a probe cycle sends one request to each endpoint of the registry,
\* in registry order, whatever its breaker and status: never a second
\* request, never a backoff, and at the end of the cycle every endpoint has
\* had its request.
C17_OneProbePerEndpoint ==
    \A p \in Probers :
        /\ frame[p].pc # "sleep"
        /\ \A u \in Registered : history[p].sent[u] <= 1
        /\ frame[p].pc \in {"post", "probe_ok_lock", "probe_ok_store",
                            "mark_lock", "mark_store"} =>
                \A i \in 1..Len(endpoints) :
                    history[p].sent[UrlAt(i)] =
                        IF i < frame[p].cur \/
                           (i = frame[p].cur /\ frame[p].pc # "post")
                        THEN 1 ELSE 0
        /\ frame[p].pc = "interval" =>
                \A u \in Registered : history[p].sent[u] = 1

\* The only health-check thread has just sent its request to an endpoint
\* that is UNHEALTHY and whose breaker is open.
C17_Witness ==
    \E p \in Probers :
        /\ Alive = {p}
        /\ frame[p].pc = "mark_lock"
        /\ history[p].sent[Endpoint(p)] = 1
        /\ status[Endpoint(p)] = UNHEALTHY
        /\ HasEntry(Endpoint(p))
        /\ now < _circuit_open_until[Endpoint(p)]

\* C18: no step of get_status changes a health field or the breaker map,
\* and a get_status that returns reports the endpoints in registry order,
\* one entry each.
C18_GetStatusReadOnly ==
    /\ [][\A s \in Reporters :
            frame'[s] # frame[s] => UNCHANGED <<health, _circuit_open_until>>]_vars
    /\ [](\A s \in Reporters :
            (frame[s].pc = "done" /\ frame[s].error = NoError) =>
                /\ Len(frame[s].report) = Len(endpoints)
                /\ \A i \in 1..Len(endpoints) : frame[s].report[i].url = UrlAt(i))

\* C19: while get_status holds the lock, the success_rate of every entry it
\* has built is 0 for an endpoint with total_requests = 0 and otherwise
\* equals successful_requests * 100 / total_requests.
C19_SuccessRate ==
    \A s \in Reporters :
        _lock = s =>
            \A i \in 1..Len(frame[s].report) :
                LET entry == frame[s].report[i]
                    total == total_requests[entry.url]
                    successful == successful_requests[entry.url]
                IN  IF total = 0
                    THEN entry.success_rate = Ratio(0, 1)
                    ELSE /\ entry.success_rate.den > 0
                         /\ entry.success_rate.num * total =
                                successful * 100 * entry.success_rate.den

\* A report with an endpoint that never had a request and one that had
\* three, two of them successful.
C19_Witness ==
    \E s \in Reporters :
        /\ _lock = s
        /\ \E i, j \in 1..Len(frame[s].report) :
            /\ total_requests[frame[s].report[i].url] = 0
            /\ total_requests[frame[s].report[j].url] = 3
            /\ successful_requests[frame[s].report[j].url] = 2

\* C20: a thread sleeps a backoff only after a failed attempt k that was
\* not the last one, and the delay d of that sleep has 2^k <= d < 2^k + 1
\* (in tenths: 10 * 2^k <= d < 10 * 2^k + 10); no other delay is pending.
C20_BackoffBounds ==
    \A t \in Threads :
        IF frame[t].pc = "sleep"
        THEN /\ frame[t].attempt < Attempts(t) - 1
             /\ 10 * (2 ^ frame[t].attempt) <= frame[t].wait_time
             /\ frame[t].wait_time < 10 * (2 ^ frame[t].attempt) + 10
        ELSE frame[t].wait_time = 0

\* The sleep after the second of three attempts, with the largest jitter.
C20_Witness ==
    \E c \in Callers :
        /\ frame[c].pc = "sleep"
        /\ frame[c].attempt = 1
        /\ max_retries = 3
        /\ frame[c].wait_time = 29

\* C21: once the recording of a failure is complete, the status of every
\* endpoint is the one its consecutive_failures stands for: UNHEALTHY at or
\* above the threshold, DEGRADED when positive and below it, neither of the
\* two at 0.
C21_StatusFollowsCounter ==
    \A u \in Registered :
        (Settled(u) /\ _lock = NoThread) =>
            /\ consecutive_failures[u] >= circuit_breaker_threshold =>
                    status[u] = UNHEALTHY
            /\ ( /\ consecutive_failures[u] > 0
                 /\ consecutive_failures[u] < circuit_breaker_threshold ) =>
                    status[u] = DEGRADED
            /\ consecutive_failures[u] = 0 => status[u] \notin {DEGRADED, UNHEALTHY}

\* The health state of u that a failure acts on, and markFailure as the
\* prober applies it (lines 157-164: _mark_endpoint_unhealthy once).
HealthOf(u) ==
    [status |-> status[u], failures |-> consecutive_failures[u], open |-> HasEntry(u)]
MarkedOnce(h) ==
    [status |-> IF h.failures + 1 >= circuit_breaker_threshold
                THEN UNHEALTHY ELSE DEGRADED,
     failures |-> h.failures + 1,
     open |-> h.open \/ h.failures + 1 >= circuit_breaker_threshold]

\* C22: when the dispatcher has finished recording a failure of u (the
\* threshold test of line 261 was false, or _mark_endpoint_unhealthy has
\* returned), u has the status, the consecutive_failures and the breaker
\* that one failed probe would have left from the state the failure found.
\* (One caller and no other thread: that state is the present one with the
\* counter before line 257.)
C22_SameEffectAsProbeFailure ==
    [][\A c \in Callers :
        LET u == Endpoint(c)
            found == [HealthOf(u) EXCEPT !.failures = @ - 1]
            left == [status |-> status'[u], failures |-> consecutive_failures'[u],
                     open |-> u \in DOMAIN _circuit_open_until']
        IN  ( \/ frame[c].pc = "threshold" /\ frame'[c].pc \notin {"threshold", "mark_lock"}
              \/ frame[c].pc = "mark_store" /\ frame'[c].pc # "mark_store" )
            => left = MarkedOnce(found)
      ]_vars

\* The number of times rpc_call has recorded a failure of u.
Exhausted(u) == dispatched[u] - succeeded[u]

\* C23: for an endpoint whose requests all fail, once the recording of a
\* failure is complete, total_requests and consecutive_failures are both
\* the number of times rpc_call exhausted its retries on it (each grew by 1
\* each time), and its breaker has been opened exactly if that number has
\* reached the threshold.
C23_ExhaustionCountsOnce ==
    \A u \in Registered :
        (transport[u] = "down" /\ Settled(u) /\ _lock = NoThread) =>
            /\ total_requests[u] = dispatched[u]
            /\ consecutive_failures[u] = Exhausted(u)
            /\ openedUntil[u] > 0 <=> Exhausted(u) >= circuit_breaker_threshold

\* C24: the step that commits _mark_endpoint_unhealthy adds 1 to
\* consecutive_failures and then, with the counter at or above the
\* threshold, sets UNHEALTHY and the breaker entry to now +
\* circuit_breaker_timeout, otherwise sets DEGRADED and leaves the breaker
\* map as it is; and no other step adds a breaker entry or changes one.
Marking(t, u) ==
    frame[t].pc = "mark_store" /\ frame'[t].pc # "mark_store" /\ Endpoint(t) = u

C24_MarkIsTheOnlyOpener ==
    [][\A u \in Registered :
        /\ (\E t \in Threads : Marking(t, u)) =>
            /\ consecutive_failures'[u] = consecutive_failures[u] + 1
            /\ IF consecutive_failures'[u] >= circuit_breaker_threshold
               THEN /\ status'[u] = UNHEALTHY
                    /\ u \in DOMAIN _circuit_open_until'
                    /\ _circuit_open_until'[u] = now + circuit_breaker_timeout
               ELSE /\ status'[u] = DEGRADED
                    /\ _circuit_open_until' = _circuit_open_until
        /\ ( /\ u \in DOMAIN _circuit_open_until'
             /\ ~HasEntry(u) \/ _circuit_open_until'[u] # _circuit_open_until[u] )
            => \E t \in Threads : Marking(t, u)
      ]_vars

\* _mark_endpoint_unhealthy is about to commit on an endpoint whose breaker
\* is open: the entry will be extended.
C24_Witness ==
    \E t \in Threads :
        /\ frame[t].pc = "mark_store"
        /\ HasEntry(Endpoint(t))
        /\ _circuit_open_until[Endpoint(t)] < now + circuit_breaker_timeout

\* C25: _is_circuit_open returns True exactly when the endpoint has an
\* open-until entry and the current time is strictly before it; when the
\* entry exists and the time has reached it, the entry is removed and the
\* result is False. Stated for rpc_call's use of it (line 217): the step on
\* which the function is left returns a value, True is returned exactly for
\* an entry still in the future, and an expired entry is gone afterwards.
LeavesCircuitCheck(c) ==
    /\ frame[c].pc \in {"circuit_in", "circuit_cmp", "circuit_del"}
    /\ frame'[c].pc \notin {"circuit_in", "circuit_cmp", "circuit_del"}

C25_CircuitOpenIffEntryInFuture ==
    [][\A c \in Callers :
        LET u == Endpoint(c)
            open == HasEntry(u) /\ now < _circuit_open_until[u]
        IN  LeavesCircuitCheck(c) =>
                /\ frame'[c].error # "KeyError"
                /\ history'[c].visit[u] = "open" <=> open
                /\ ~open => /\ frame'[c].pc = "status"
                            /\ u \notin DOMAIN _circuit_open_until'
      ]_vars

\* C26: when an endpoint completes a dispatched rpc_call successfully, the
\* success bookkeeping (lines 235-247) leaves no breaker entry for it.
C26_SuccessClosesBreaker ==
    [][\A c \in Callers :
        (frame[c].pc = "success_store" /\ frame'[c].pc # "success_store")
            => Endpoint(c) \notin DOMAIN _circuit_open_until'
      ]_vars

\* C27: within one rpc_call the loop over the registry only moves forward,
\* an endpoint is selected only while unvisited, requests go only to the
\* endpoint selected at that moment and never more than max_retries of them;
\* so an endpoint that has exhausted its retries gets no further request in
\* the same call.
InCall(c) == frame[c].pc \notin {"idle", "done"}

C27_RetriesPerEndpoint ==
    [][\A c \in Callers :
        InCall(c) =>
            /\ frame'[c].cur >= frame[c].cur
            /\ (frame[c].pc = "status" /\ frame'[c].pc = "post") =>
                    /\ history[c].visit[Endpoint(c)] = "unvisited"
                    /\ history[c].sent[Endpoint(c)] = 0
            /\ \A u \in Urls :
                /\ history'[c].sent[u] <= max_retries
                /\ history'[c].sent[u] # history[c].sent[u] =>
                        /\ u = Endpoint(c)
                        /\ history[c].visit[u] \in {"selected", "forced"}
                /\ (history[c].visit[u] # "unvisited" /\ u # Endpoint(c)) =>
                        /\ history'[c].visit[u] = history[c].visit[u]
                        /\ history'[c].sent[u] = history[c].sent[u]
      ]_vars

\* A call that sent max_retries > 1 requests to its first endpoint, all
\* failed, and is now sending to the second.
C27_Witness ==
    \E c \in Callers :
        /\ InCall(c)
        /\ max_retries > 1
        /\ frame[c].cur = 2
        /\ history[c].sent[UrlAt(1)] = max_retries
        /\ history[c].sent[UrlAt(2)] > 0

\* C28: the success bookkeeping of a dispatched rpc_call (lines 235-247)
\* records a latency sample: the endpoint's avg_latency_ms afterwards is
\* the rolling average of the old value and a sample, as after a successful
\* probe (lines 146-151).
C28_DispatchRecordsLatency ==
    [][\A c \in Callers :
        (frame[c].pc = "success_store" /\ frame'[c].pc # "success_store") =>
            \E latency \in Latencies :
                avg_latency_ms'[Endpoint(c)] =
                    Smoothed(avg_latency_ms[Endpoint(c)], latency)
      ]_vars

\* C29: a probe is committed as a failure only when its request raised
\* (transport error, HTTP error status or RPC error field); a probe whose
\* request returned, a null result included, is committed as a success.
\* So no health-check thread is in _mark_endpoint_unhealthy holding a
\* result that _rpc_call returned.
C29_NullResultIsSuccess ==
    \A p \in Probers :
        frame[p].pc \in {"mark_lock", "mark_store"} => frame[p].result = NoResult

\* C30: no step of a health-check thread changes total_requests or
\* successful_requests, whatever the probe's outcome; the steps that change
\* them are the stores of rpc_call's success and failure blocks.
StepOf(t) == frame'[t] # frame[t]

C30_ProbesLeaveCounters ==
    [][ /\ (\E p \in Probers : StepOf(p)) =>
                /\ total_requests' = total_requests
                /\ successful_requests' = successful_requests
        /\ (total_requests' # total_requests \/ successful_requests' # successful_requests)
                => \E c \in Callers : /\ frame[c].pc \in {"success_store", "failure_store"}
                                      /\ StepOf(c)
      ]_vars

\* A probe cycle is over in which one endpoint answered and another failed,
\* and neither has a request counted.
C30_Witness ==
    \E p \in Probers, u, v \in Registered :
        /\ frame[p].pc = "interval"
        /\ avg_latency_ms[u] # Ratio(0, 1)
        /\ consecutive_failures[v] > 0
        /\ total_requests[u] = 0 /\ total_requests[v] = 0
        /\ successful_requests[u] = 0

\* C31: in every state, an endpoint whose breaker is open (an entry that is
\* still in the future, so that rpc_call skips the endpoint) has status
\* UNHEALTHY.
BreakerOpen(u) == HasEntry(u) /\ now < _circuit_open_until[u]

C31_OpenBreakerIsUnhealthy ==
    \A u \in Registered : BreakerOpen(u) => status[u] = UNHEALTHY

\* C32: the step that clears a breaker entry leaves the endpoint's status
\* as it was; rpc_call sends to an endpoint that is not the last only when
\* it reads a status other than UNHEALTHY; and once UNHEALTHY, an endpoint
\* that is not the last gets another status only by the store of a
\* successful health probe of it.
EntryCleared(u) == HasEntry(u) /\ u \notin DOMAIN _circuit_open_until'
Recovers(u) == status[u] = UNHEALTHY /\ status'[u] # UNHEALTHY
Commits(t, u, pc_) ==
    frame[t].pc = pc_ /\ frame'[t].pc # pc_ /\ Endpoint(t) = u
Selects(c, u) ==
    frame[c].pc = "status" /\ frame'[c].pc = "post" /\ Endpoint(c) = u

C32_OnlyAProbeRecovers ==
    [][\A u \in Registered \ {LastEndpoint} :
        /\ EntryCleared(u) => status'[u] = status[u]
        /\ (\E c \in Callers : Selects(c, u)) => status[u] # UNHEALTHY
        /\ Recovers(u) => \E p \in Probers : Commits(p, u, "probe_ok_store")
      ]_vars

\* C32, amended: as above, but an UNHEALTHY endpoint also recovers by the
\* success block of an rpc_call whose request to it was sent before it
\* became UNHEALTHY.
C32_OnlyASuccessRecovers ==
    [][\A u \in Registered \ {LastEndpoint} :
        /\ EntryCleared(u) => status'[u] = status[u]
        /\ (\E c \in Callers : Selects(c, u)) => status[u] # UNHEALTHY
        /\ Recovers(u) =>
            \/ \E p \in Probers : Commits(p, u, "probe_ok_store")
            \/ \E c \in Callers :
                /\ Commits(c, u, "success_store")
                /\ history[c].visit[u] = "selected"
      ]_vars

\* A call found the first endpoint's breaker expired, cleared the entry and
\* then skipped the endpoint for its status: it sent it nothing.
C32_Witness ==
    \E c \in Callers :
        /\ UrlAt(1) # LastEndpoint
        /\ openedUntil[UrlAt(1)] > 0
        /\ openedUntil[UrlAt(1)] <= now
        /\ ~HasEntry(UrlAt(1))
        /\ status[UrlAt(1)] = UNHEALTHY
        /\ history[c].visit[UrlAt(1)] = "unhealthy"
        /\ history[c].sent[UrlAt(1)] = 0

\* C33: whatever the interleaving of start() and stop() calls, at most one
\* thread is in _health_check_loop.
C33_AtMostOneProberLoop == Cardinality(Alive) <= 1

\* C34: whatever max_retries is (0 included), a call that is in the success
\* block for an endpoint, or has returned from it, sent that endpoint at
\* least one request and holds the answer to one of them.
C34_SuccessNeedsARequest ==
    \A c \in Callers :
        (frame[c].pc \in {"success_lock", "success_store"} \/ CallReturned(c)) =>
            /\ history[c].sent[Endpoint(c)] >= 1
            /\ frame[c].result.from = Endpoint(c)

AtAcquire(t) ==
    \/ frame[t].pc \in {"success_lock", "failure_lock", "mark_lock", "probe_ok_lock"}
    \/ t \in Reporters /\ frame[t].pc \in {"idle", "done"}
InsideWith(t) ==
    IF t \in Reporters
    THEN frame[t].pc \in {"circuit_in", "circuit_cmp", "circuit_del", "unlock"}
    ELSE frame[t].pc \in {"success_store", "failure_store", "mark_store",
                          "probe_ok_store"}
StepInsideWith(t) ==
    \/ SuccessStore(t) \/ FailureStore(t) \/ MarkStore(t) \/ ProbeOkStore(t)
    \/ ReporterStep(t)

C36_LockNotReacquired ==
    \A t \in Threads :
        _lock = t => /\ ~AtAcquire(t)
                     /\ InsideWith(t)
                     /\ ENABLED StepInsideWith(t)

\* get_status holds the lock inside _is_circuit_open while a health-check
\* thread waits at its own `with self._lock:`.
C36_Witness ==
    \E s \in Reporters, p \in Probers :
        /\ _lock = s
        /\ frame[s].pc \in {"circuit_cmp", "circuit_del"}
        /\ frame[p].pc \in {"mark_lock", "probe_ok_lock"}

\* C37: every rpc_call that has begun ends, by a return or by raising (no
\* caller stays inside a call from some point on), and in no state has a
\* call sent more than (number of endpoints) x max_retries requests.
RequestsOf(c) ==
    history[c].sent["u1"] + history[c].sent["u2"] + history[c].sent["u3"]

C37_RpcCallTerminates ==
    /\ [](\A c \in Callers : RequestsOf(c) <= Len(endpoints) * max_retries)
    /\ \A c \in Callers : []<>(~InCall(c))

\* A call is over that sent every endpoint max_retries requests.
C37_Witness ==
    \E c \in Callers :
        /\ frame[c].pc = "done"
        /\ max_retries >= 1
        /\ RequestsOf(c) = Len(endpoints) * max_retries
====
